---- MODULE Spec2Model ----
(***************************************************************************)
(* A model of meemoo/helpers.py: the S3-event field extractor              *)
(* (try_to_find_md5, get_from_event), the SidecarBuilder and the FTP       *)
(* transfer wrapper.                                                       *)
(*                                                                         *)
(* Python values are records tagged with their type, a dict is the         *)
(* sequence of its (key, value) items in iteration order, an exception is  *)
(* a record naming its class.  An lxml element is a record of its tag      *)
(* (namespace URI and local name), attributes, declared namespaces, text   *)
(* and children.                                                           *)
(***************************************************************************)
EXTENDS Integers, Sequences, FiniteSets, TLC

VARIABLES
    sidecar,    \* SidecarBuilder.sidecar: None or the ElementTree last built
    lastGood,   \* history: the metadata_dict of the latest build that returned
    bcall,      \* the latest call on the builder and how it ended
    equery,     \* the arguments of the latest extractor call
    eresult,    \* how the latest extractor call ended
    conn,       \* FTP.conn: the state of the ftplib session of the instance
    files,      \* the files on the FTP server: directory, name and content
    fcall       \* the latest call on the FTP object and how it ended

vars == <<sidecar, lastGood, bcall, equery, eresult, conn, files, fcall>>
bvars == <<sidecar, lastGood, bcall>>
evars == <<equery, eresult>>
fvars == <<conn, files, fcall>>

(***************************************************************************)
(* Python values and exceptions                                            *)
(***************************************************************************)
PyNone == [t |-> "NoneType"]
PyStr(s) == [t |-> "str", s |-> s]
PyInt(i) == [t |-> "int", i |-> i]
PyDict(items) == [t |-> "dict", items |-> items]

NoExc == [exc |-> "none"]
Raised(class, arg) == [exc |-> class, arg |-> arg]

\* key in d.keys()
HasKey(d, k) == \E i \in 1..Len(d.items) : d.items[i][1] = k
\* d[key], for a key that is present
Lookup(d, k) == d.items[CHOOSE i \in 1..Len(d.items) : d.items[i][1] = k][2]

(***************************************************************************)
(* SidecarBuilder                                                          *)
(***************************************************************************)
ALLOWED_NODES == <<"Dynamic", "Technical">>
XML_ENCODING == "UTF-8"
MHS_VERSION == "19.4"
\* an f-string is the sequence of its literal and interpolated parts
MH_NAMESPACES ==
    [mhs |-> <<"https://zeticon.mediahaven.com/metadata/", MHS_VERSION, "/mhs/">>,
     mh  |-> <<"https://zeticon.mediahaven.com/metadata/", MHS_VERSION, "/mh/">>]

InSeq(x, s) == \E i \in 1..Len(s) : s[i] = x

\* "{%s}%s" % (uri, name): a tag in Clark notation
Clark(uri, name) == [ns |-> uri, local |-> name]
\* "%s" % name: a tag without a namespace
NoNamespace == <<>>
Bare(name) == [ns |-> NoNamespace, local |-> name]

\* etree.Element(tag, version=..., nsmap=...)
Element(tag, attrib, nsmap) ==
    [tag |-> tag, attrib |-> attrib, nsmap |-> nsmap, text |-> PyNone,
     children |-> <<>>]

\* SubElement with the new child put first
SubElementFirst(parent, tag) ==
    [parent EXCEPT !.children = <<Element(tag, <<>>, {})>> \o @]

\* etree.SubElement(parent, tag): the parent with the new child appended
SubElement(parent, tag) ==
    [parent EXCEPT !.children = Append(@, Element(tag, <<>>, {}))]

Ok(node) == [exc |-> NoExc, node |-> node]

\* element.text = val on the last child of node: lxml takes a str or None and
\* raises TypeError for every other type
SetLastText(node, val) ==
    IF val.t \in {"str", "NoneType"}
    THEN Ok([node EXCEPT !.children[Len(node.children)].text = val])
    ELSE [exc |-> Raised("TypeError", val.t), node |-> node]

\* etree.ElementTree(root)
ElementTree(root) == [t |-> "ElementTree", root |-> root]

RECURSIVE FirstUnknown(_, _)
FirstUnknown(metadata_dict, i) ==
    IF i > Len(metadata_dict.items) THEN NoExc
    ELSE IF InSeq(metadata_dict.items[i][1], ALLOWED_NODES)
         THEN FirstUnknown(metadata_dict, i + 1)
         ELSE Raised("AssertionError", metadata_dict.items[i][1])

\* check_metadata_dict with the assert applied to the first key only
check_first_key_only(metadata_dict) ==
    IF metadata_dict.items # <<>> /\ ~InSeq(metadata_dict.items[1][1], ALLOWED_NODES)
    THEN Raised("AssertionError", metadata_dict.items[1][1])
    ELSE NoExc

\* check_metadata_dict: the assert of the first key outside ALLOWED_NODES fails
check_metadata_dict(metadata_dict) == FirstUnknown(metadata_dict, 1)

\* etree.SubElement(node, tag).text = val
AppendField(node, tag, val) == SetLastText(SubElement(node, tag), val)

\* `if top == 'Dynamic': ...`, reached when the `if` before it did not raise
DynamicField(tech, top, sub, val) ==
    IF tech.exc # NoExc THEN tech
    ELSE IF top = "Dynamic" THEN AppendField(tech.node, Bare(sub), val)
    ELSE tech

\* AddField with the fields of every category in the mh namespace
AddFieldAllNamespaced(node, top, sub, val) ==
    AppendField(node, Clark(MH_NAMESPACES.mh, sub), val)

\* one pass of the body of `for sub, val in metadata_dict[top].items()`: the
\* two `if`s in turn
AddField(node, top, sub, val) ==
    DynamicField(IF top = "Technical"
                 THEN AppendField(node, Clark(MH_NAMESPACES.mh, sub), val)
                 ELSE Ok(node),
                 top, sub, val)

RECURSIVE AddFields(_, _, _, _)
\* the loop over metadata_dict[top].items() from item i on; r is the category
\* element so far, or the exception that ended the loop
AddFields(r, top, items, i) ==
    IF r.exc # NoExc \/ i > Len(items) THEN r
    ELSE AddFields(AddField(r.node, top, items[i][1], items[i][2]), top, items, i + 1)

\* the category element, filled or not, back in its place as root's last child
WithLastChild(root, r) ==
    [exc |-> r.exc, node |-> [root EXCEPT !.children[Len(root.children)] = r.node]]

\* metadata_dict[top].items() and the loop over it; withNode is root with the
\* category element already appended
FillCategory(withNode, top, value) ==
    IF value.t # "dict"
    THEN [exc |-> Raised("AttributeError", value.t), node |-> withNode]
    ELSE WithLastChild(withNode,
            AddFields(Ok(withNode.children[Len(withNode.children)]), top, value.items, 1))

\* one pass of the body of `for top in metadata_dict`: the category element is
\* appended to root first, then the value's items() are read
AddCategory(root, top, value) ==
    FillCategory(SubElement(root, Clark(MH_NAMESPACES.mhs, top)), top, value)

RECURSIVE AddCategories(_, _, _)
\* the loop over metadata_dict from item i on; r is root so far, or the
\* exception that ended the loop
AddCategories(r, items, i) ==
    IF r.exc # NoExc \/ i > Len(items) THEN r
    ELSE AddCategories(AddCategory(r.node, items[i][1], items[i][2]), items, i + 1)

\* the root element without its version attribute
SidecarRootNoVersion ==
    Element(Clark(MH_NAMESPACES.mhs, "Sidecar"), <<>>,
            {<<"mhs", MH_NAMESPACES.mhs>>, <<"mh", MH_NAMESPACES.mh>>})

\* the root element: Sidecar in the mhs namespace, with the version attribute
\* and both namespace declarations
SidecarRoot ==
    Element(Clark(MH_NAMESPACES.mhs, "Sidecar"),
            <<<<"version", MHS_VERSION>>>>,
            {<<"mhs", MH_NAMESPACES.mhs>>, <<"mh", MH_NAMESPACES.mh>>})

\* the end of build: self.sidecar = doc is reached only when nothing raised
\* (doc wraps root, so it holds whatever the loops appended)
SetSidecar(self_sidecar, filled) ==
    IF filled.exc # NoExc
    THEN [exc |-> filled.exc, sidecar |-> self_sidecar, root |-> filled.node]
    ELSE [exc |-> NoExc, sidecar |-> ElementTree(filled.node), root |-> filled.node]

\* build that goes on from the root of the tree it holds, when it holds one
BuildCheckedOnHeldTree(self_sidecar, metadata_dict, checked) ==
    IF checked # NoExc
    THEN [exc |-> checked, sidecar |-> self_sidecar, root |-> PyNone]
    ELSE SetSidecar(self_sidecar,
            AddCategories(Ok(IF self_sidecar = PyNone THEN SidecarRoot
                             ELSE self_sidecar.root),
                          metadata_dict.items, 1))

\* build after check_metadata_dict: nothing is created when the check raised
BuildChecked(self_sidecar, metadata_dict, checked) ==
    IF checked # NoExc
    THEN [exc |-> checked, sidecar |-> self_sidecar, root |-> PyNone]
    ELSE SetSidecar(self_sidecar, AddCategories(Ok(SidecarRoot), metadata_dict.items, 1))

\* SidecarBuilder.build.  The result names the exception raised (if any), the
\* value of self.sidecar when the call ends and the local tree `root` as it is
\* when the call ends (None when it was never created).
build(self_sidecar, metadata_dict) ==
    BuildChecked(self_sidecar, metadata_dict, check_metadata_dict(metadata_dict))

\* etree.tostring(element_or_tree, pretty_print, encoding, xml_declaration=True):
\* the declaration, then the elements in document order; pretty_print adds
\* whitespace after the tags only.  Anything but an element or a tree is a
\* TypeError ("Type 'NoneType' cannot be serialized.").
RECURSIVE Render(_, _, _)
Render(elems, i, pretty) ==
    IF i > Len(elems) THEN <<>>
    ELSE LET e == elems[i]
         IN  <<[tok |-> "open", tag |-> e.tag, attrib |-> e.attrib, nsmap |-> e.nsmap]>>
             \o (IF e.text.t = "str" THEN <<[tok |-> "text", s |-> e.text.s]>> ELSE <<>>)
             \o (IF pretty /\ e.children # <<>> THEN <<[tok |-> "ws"]>> ELSE <<>>)
             \o Render(e.children, 1, pretty)
             \o <<[tok |-> "close", tag |-> e.tag]>>
             \o (IF pretty THEN <<[tok |-> "ws"]>> ELSE <<>>)
             \o Render(elems, i + 1, pretty)

tostring(element_or_tree, pretty, encoding) ==
    IF element_or_tree.t # "ElementTree"
    THEN [exc |-> Raised("TypeError", element_or_tree.t), out |-> PyNone]
    ELSE [exc |-> NoExc,
          out |-> [t |-> "bytes", encoding |-> encoding,
                   tokens |-> <<[tok |-> "xmldecl", version |-> "1.0",
                                 encoding |-> encoding]>>
                              \o Render(<<element_or_tree.root>>, 1, pretty)]]

\* to_bytes that answers an instance without a tree with no bytes
to_bytes_or_nothing(self_sidecar, pretty) ==
    IF self_sidecar = PyNone
    THEN [exc |-> NoExc, out |-> [t |-> "bytes", encoding |-> XML_ENCODING, tokens |-> <<>>]]
    ELSE tostring(self_sidecar, pretty, XML_ENCODING)

\* SidecarBuilder.to_bytes
to_bytes(self_sidecar, pretty) == tostring(self_sidecar, pretty, XML_ENCODING)

\* bytes.decode('utf-8') of bytes that tostring encoded as UTF-8: the same
\* document as a str
decode(bytes) == [t |-> "str", tokens |-> bytes.tokens]

\* .decode('utf-8') of what tostring returned, when it returned
Decoded(r) ==
    IF r.exc # NoExc THEN r ELSE [exc |-> NoExc, out |-> decode(r.out)]

\* SidecarBuilder.to_string
to_string(self_sidecar, pretty) ==
    Decoded(tostring(self_sidecar, pretty, XML_ENCODING))

\* the sequences of at most n distinct elements of S
InjSeqs(S, n) ==
    {s \in UNION {[1..k -> S] : k \in 0..n} :
        \A i, j \in 1..Len(s) : i # j => s[i] # s[j]}

(***************************************************************************)
(* The field extractor                                                     *)
(***************************************************************************)
PyList(items) == [t |-> "list", items |-> items]
Val(v) == [exc |-> NoExc, val |-> v]
Exc(class, arg) == [exc |-> Raised(class, arg), val |-> PyNone]

BASE_DOMAIN == "viaa.be"

\* r[k], where r is the outcome of the lookups before it: a missing dict key
\* is a KeyError, a list index out of range an IndexError, and a value that
\* is neither a dict nor a list has no such item
Subscript(r, k) ==
    IF r.exc # NoExc THEN r
    ELSE IF r.val.t = "dict"
         THEN IF HasKey(r.val, k) THEN Val(Lookup(r.val, k)) ELSE Exc("KeyError", k)
    ELSE IF r.val.t = "list"
         THEN IF k + 1 \in 1..Len(r.val.items) THEN Val(r.val.items[k + 1])
              ELSE Exc("IndexError", k)
    ELSE Exc("TypeError", r.val.t)

POSSIBLE_KEYS == <<"x-md5sum-meta", "md5sum", "x-amz-meta-md5sum">>

RECURSIVE FirstPresent(_, _, _)
\* the loop over the candidate keys from the i-th on
FirstPresent(object_metadata, candidates, i) ==
    IF i > Len(candidates) THEN Val(PyStr(""))
    ELSE IF HasKey(object_metadata, candidates[i])
         THEN Val(Lookup(object_metadata, candidates[i]))
         ELSE FirstPresent(object_metadata, candidates, i + 1)

\* try_to_find_md5 with the candidate keys tried last to first
try_to_find_md5_reversed(r) ==
    IF r.exc # NoExc THEN r
    ELSE IF r.val.t # "dict" THEN Exc("AttributeError", r.val.t)
    ELSE FirstPresent(r.val, <<"x-amz-meta-md5sum", "md5sum", "x-md5sum-meta">>, 1)

\* try_to_find_md5, given the outcome of evaluating its argument
try_to_find_md5(r) ==
    IF r.exc # NoExc THEN r
    ELSE IF r.val.t # "dict" THEN Exc("AttributeError", r.val.t)
    ELSE FirstPresent(r.val, POSSIBLE_KEYS, 1)

\* a str is the sequence of its characters
UPPERCASE == <<"A", "B", "C", "D", "E", "F", "G", "H", "I", "J", "K", "L", "M", "N", "O", "P", "Q", "R", "S", "T", "U", "V", "W", "X", "Y", "Z">>
LOWERCASE == <<"a", "b", "c", "d", "e", "f", "g", "h", "i", "j", "k", "l", "m", "n", "o", "p", "q", "r", "s", "t", "u", "v", "w", "x", "y", "z">>
LowerChar(c) ==
    IF \E i \in 1..Len(UPPERCASE) : UPPERCASE[i] = c
    THEN LOWERCASE[CHOOSE i \in 1..Len(UPPERCASE) : UPPERCASE[i] = c]
    ELSE c
\* str.lower()
lower(name) == [i \in 1..Len(name) |-> LowerChar(name[i])]

keys == <<<<"b", "u", "c", "k", "e", "t">>, <<"o", "b", "j", "e", "c", "t", "_", "k", "e", "y">>, <<"h", "o", "s", "t">>, <<"t", "e", "n", "a", "n", "t">>, <<"m", "d", "5">>>>

\* '.'.join(parts), given the outcomes of evaluating the parts
Join(a, b, c) ==
    IF a.exc # NoExc THEN a
    ELSE IF b.exc # NoExc THEN b
    ELSE IF a.val.t # "str" \/ b.val.t # "str" THEN Exc("TypeError", "join")
    ELSE Val(PyStr(a.val.s \o "." \o b.val.s \o "." \o c))

\* the if/elif chain of get_from_event; a name that matches no branch falls
\* off the end and returns None
Branch(s3_sub, name) ==
    IF s3_sub.exc # NoExc THEN s3_sub
    ELSE IF name = <<"b", "u", "c", "k", "e", "t">> THEN Subscript(Subscript(s3_sub, "bucket"), "name")
    ELSE IF name = <<"o", "b", "j", "e", "c", "t", "_", "k", "e", "y">> THEN Subscript(Subscript(s3_sub, "object"), "key")
    ELSE IF name = <<"h", "o", "s", "t">>
         THEN Join(Subscript(Subscript(s3_sub, "bucket"), "name"),
                   Subscript(Subscript(s3_sub, "domain"), "name"), BASE_DOMAIN)
    ELSE IF name = <<"t", "e", "n", "a", "n", "t">>
         THEN Subscript(Subscript(Subscript(s3_sub, "bucket"), "metadata"), "tenant")
    ELSE IF name = <<"m", "d", "5">>
         THEN try_to_find_md5(Subscript(Subscript(s3_sub, "object"), "metadata"))
    ELSE Val(PyNone)

\* get_from_event after name = name.lower()
Lowered(event, name) ==
    IF ~InSeq(name, keys) THEN Exc("AssertionError", name)
    ELSE Branch(Subscript(Subscript(Subscript(Val(event), "Records"), 0), "s3"), name)

\* get_from_event that compares the name as it is given
get_from_event_case_sensitive(event, name) == Lowered(event, name)

get_from_event(event, name) == Lowered(event, lower(name))

(***************************************************************************)
(* The events and names the extractor is called with                       *)
(***************************************************************************)
\* the largest number of keys in the object metadata of an event
MaxMetaKeys == 3

MetaKeys == {"x-md5sum-meta", "md5sum", "x-amz-meta-md5sum", "etag"}
MetaValue ==
    [k \in MetaKeys |->
        PyStr(CASE k = "x-md5sum-meta" -> "0cc175b9c0f1b6a831c399e269772661"
                [] k = "md5sum" -> "7ef01fd710fec9a175d28c4a31dc49a2"
                [] k = "x-amz-meta-md5sum" -> "92eb5ffee6ae2fec3ad71c777531578f"
                [] OTHER -> "4a8a08f09d37b73795649038408b5f33")]
ObjectMetadatas ==
    {PyDict([i \in 1..Len(ks) |-> <<ks[i], MetaValue[ks[i]]>>]) :
        ks \in InjSeqs(MetaKeys, MaxMetaKeys)}

S3(object_metadata) ==
    PyDict(<< <<"bucket",
                PyDict(<< <<"name", PyStr("MAM_HighresVideo")>>,
                          <<"metadata", PyDict(<<<<"tenant", PyStr("OR-rf5kf25")>>>>)>> >>)>>,
              <<"object",
                PyDict(<< <<"key", PyStr("191213-VAN.MXF")>>,
                          <<"metadata", object_metadata>> >>)>>,
              <<"domain", PyDict(<<<<"name", PyStr("s3")>>>>)>> >>)
Event(s3) == PyDict(<<<<"Records", PyList(<<PyDict(<<<<"s3", s3>>>>)>>)>>>>)

GoodEvents == {Event(S3(m)) : m \in ObjectMetadatas}
\* events that lack a part of the notification
MalformedEvents ==
    {PyDict(<<>>),
     PyDict(<<<<"Records", PyList(<<>>)>>>>),
     Event(PyDict(<<<<"domain", PyDict(<<<<"name", PyStr("s3")>>>>)>>>>)),
     Event(PyNone)}
Events == GoodEvents \cup MalformedEvents

Names ==
    {<<"b", "u", "c", "k", "e", "t">>, <<"B", "u", "c", "k", "e", "t">>, <<"o", "b", "j", "e", "c", "t", "_", "k", "e", "y">>, <<"O", "B", "J", "E", "C", "T", "_", "K", "E", "Y">>, <<"h", "o", "s", "t">>, <<"t", "e", "n", "a", "n", "t">>, <<"T", "e", "n", "a", "n", "t">>,
     <<"m", "d", "5">>, <<"M", "D", "5">>, <<"k", "e", "y">>, <<"m", "d", "5", "s", "u", "m">>, <<>>}

Queries ==
    {[fn |-> "get_from_event", event |-> e, name |-> n] : e \in Events, n \in Names}
    \cup {[fn |-> "try_to_find_md5", object_metadata |-> m] : m \in ObjectMetadatas}

GetFromEventCall ==
    /\ equery.fn = "get_from_event"
    /\ eresult = PyNone
    /\ eresult' = get_from_event(equery.event, equery.name)
    /\ UNCHANGED equery

TryToFindMd5Call ==
    /\ equery.fn = "try_to_find_md5"
    /\ eresult = PyNone
    /\ eresult' = try_to_find_md5(Val(equery.object_metadata))
    /\ UNCHANGED equery

(***************************************************************************)
(* The metadata dicts the builder is called with                           *)
(***************************************************************************)
\* the largest number of fields in one category
MaxFields == 2

AllowedKeys == {ALLOWED_NODES[i] : i \in 1..Len(ALLOWED_NODES)}
\* "Descriptive" is a MediaHaven category that ALLOWED_NODES does not hold
UnknownKey == "Descriptive"
CategoryKeys == AllowedKeys \cup {UnknownKey}
FieldNames == {"md5", "title"}

\* a well-formed category: each field has its string
FieldText == [md5 |-> PyStr("abc123"), title |-> PyStr("Foo")]
GoodFields ==
    {PyDict([i \in 1..Len(ks) |-> <<ks[i], FieldText[ks[i]]>>]) :
        ks \in InjSeqs(FieldNames, MaxFields)}
\* malformed categories: a null field, a field that is no string after a
\* field that is one, a category that is no dict
BadFields ==
    {PyDict(<<<<"title", PyNone>>>>),
     PyDict(<<<<"md5", PyStr("abc123")>>, <<"title", PyInt(5)>>>>),
     PyStr("x")}

\* a sample well-formed category; build never reads the values of a dict
\* with an unknown key, so such a dict holds this value under each of its keys
SampleFields == PyDict(<<<<"title", PyStr("Foo")>>>>)

\* the dicts with the keys ks in this order and values in V
DictsOver(ks, V) ==
    {PyDict([i \in 1..Len(ks) |-> <<ks[i], vs[i]>>]) : vs \in [1..Len(ks) -> V]}

KeyOrders(K) == InjSeqs(K, Cardinality(K))
WellFormedDicts == UNION {DictsOver(ks, GoodFields) : ks \in KeyOrders(AllowedKeys)}
UnknownKeyDicts ==
    UNION {DictsOver(ks, {SampleFields}) :
           ks \in {o \in KeyOrders(CategoryKeys) : \E i \in 1..Len(o) : o[i] = UnknownKey}}
\* each malformed category, alone or beside the sample well-formed one
MalformedDicts ==
    UNION {DictsOver(ks, BadFields \cup {SampleFields}) : ks \in KeyOrders(AllowedKeys)}
        \ WellFormedDicts

\* what build is called with under each specification
BuilderInputs == WellFormedDicts \cup UnknownKeyDicts
ShapeInputs == WellFormedDicts \cup MalformedDicts

(***************************************************************************)
(* The builder's operations                                                *)
(***************************************************************************)
\* a SidecarBuilder as __init__ leaves it; no extractor call, no FTP object
BuilderInit ==
    /\ sidecar = PyNone
    /\ lastGood = PyNone
    /\ bcall = [op |-> "__init__"]
    /\ equery = PyNone
    /\ eresult = PyNone
    /\ conn = PyNone
    /\ files = {}
    /\ fcall = PyNone

\* SidecarBuilder(): a new instance takes the place of the old one
Construct ==
    /\ sidecar' = PyNone
    /\ lastGood' = PyNone
    /\ bcall' = [op |-> "__init__"]

BuildCall(Inputs) ==
    \E d \in Inputs :
        \E r \in {build(sidecar, d)} :
            /\ sidecar' = r.sidecar
            /\ lastGood' = IF r.exc = NoExc THEN d ELSE lastGood
            /\ bcall' = [op |-> "build", arg |-> d, exc |-> r.exc,
                         root |-> r.root, before |-> sidecar]

ToBytesCall ==
    \E pretty \in BOOLEAN :
        \E r \in {to_bytes(sidecar, pretty)} :
            /\ bcall' = [op |-> "to_bytes", pretty |-> pretty, exc |-> r.exc,
                         out |-> r.out, before |-> sidecar,
                         after |-> bcall.op]
            /\ UNCHANGED <<sidecar, lastGood>>

ToStringCall ==
    \E pretty \in BOOLEAN :
        \E r \in {to_string(sidecar, pretty)} :
            /\ bcall' = [op |-> "to_string", pretty |-> pretty, exc |-> r.exc,
                         out |-> r.out, before |-> sidecar,
                         after |-> bcall.op]
            /\ UNCHANGED <<sidecar, lastGood>>

BuilderNext ==
    \/ Construct /\ UNCHANGED <<evars, fvars>>
    \/ BuildCall(BuilderInputs) /\ UNCHANGED <<evars, fvars>>
    \/ ToBytesCall /\ UNCHANGED <<evars, fvars>>
    \/ ToStringCall /\ UNCHANGED <<evars, fvars>>

\* the builder called with well-formed dicts and dicts with an unknown key
SpecBuilder == BuilderInit /\ [][BuilderNext]_vars

ShapeNext ==
    \/ Construct /\ UNCHANGED <<evars, fvars>>
    \/ BuildCall(ShapeInputs) /\ UNCHANGED <<evars, fvars>>
    \/ ToBytesCall /\ UNCHANGED <<evars, fvars>>
    \/ ToStringCall /\ UNCHANGED <<evars, fvars>>

\* the builder called with dicts of allowed keys, well-formed and malformed
SpecShape == BuilderInit /\ [][ShapeNext]_vars

ExtractorNext ==
    \/ GetFromEventCall /\ UNCHANGED <<bvars, fvars>>
    \/ TryToFindMd5Call /\ UNCHANGED <<bvars, fvars>>

\* an extractor call about to be made, with its arguments
ExtractorInit ==
    /\ equery \in Queries
    /\ eresult = PyNone
    /\ sidecar = PyNone
    /\ lastGood = PyNone
    /\ bcall = [op |-> "__init__"]
    /\ conn = PyNone
    /\ files = {}
    /\ fcall = PyNone

\* each extractor function applied once to each of its arguments
SpecExtractor == ExtractorInit /\ [][ExtractorNext]_vars

(***************************************************************************)
(* FTP                                                                     *)
(***************************************************************************)
\* urlparse(host).netloc; a URL is given by the parts urlparse splits it in
set_host(host) == host.netloc

\* FTP.__connect: ftplib.FTP(host, user, passwd) connects and logs in, and
\* raises when there is no host to connect to or the network fails
connect(self_host, reachable) ==
    IF self_host = "" \/ ~reachable
    THEN [exc |-> Raised("OSError", self_host), conn |-> PyNone]
    ELSE [exc |-> NoExc, conn |-> [t |-> "FTP", open |-> TRUE]]

\* the directories of the FTP server
ServerDirs == {"/incoming"}

\* conn.cwd(destination_path)
cwd(session, destination_path) ==
    IF ~session.open THEN Raised("AttributeError", "sock")
    ELSE IF destination_path \notin ServerDirs THEN Raised("error_perm", destination_path)
    ELSE NoExc

\* conn.storbinary('STOR ' + destination_filename, BytesIO(content_bytes)),
\* reached when cwd returned
storbinary(changed, server_files, content_bytes, destination_path, destination_filename, transfer_ok) ==
    IF changed # NoExc THEN [exc |-> changed, files |-> server_files]
    ELSE IF ~transfer_ok
         THEN [exc |-> Raised("error_temp", destination_filename), files |-> server_files]
    ELSE [exc |-> NoExc,
          files |-> {f \in server_files :
                        f.dir # destination_path \/ f.name # destination_filename}
                    \cup {[dir |-> destination_path, name |-> destination_filename,
                           content |-> content_bytes]}]

\* ftplib.FTP.__exit__, at the end of the with block however it ends: quit()
\* when the session is open, and close() in its finally
exit_session(session) == [session EXCEPT !.open = FALSE]

\* put without the with block: the session is left as it is
put_without_with(self_conn, server_files, content_bytes, destination_path, destination_filename, transfer_ok) ==
    [conn |-> self_conn,
     stored |-> storbinary(cwd(self_conn, destination_path), server_files,
                           content_bytes, destination_path, destination_filename,
                           transfer_ok)]

\* FTP.put: the body of the with block, then the session's __exit__
put(self_conn, server_files, content_bytes, destination_path, destination_filename, transfer_ok) ==
    [conn |-> exit_session(self_conn),
     stored |-> storbinary(cwd(self_conn, destination_path), server_files,
                           content_bytes, destination_path, destination_filename,
                           transfer_ok)]

Hosts ==
    {[scheme |-> "ftp", netloc |-> "ftp.viaa.be", path |-> ""],
     [scheme |-> "", netloc |-> "", path |-> "ftp.viaa.be"]}
Paths == ServerDirs \cup {"/missing"}
Filenames == {"a.xml", "b.xml"}
Contents == {"<a/>", "<b/>"}

\* FTP(host, ctx): when __connect raises there is no new instance
FTPConstruct ==
    \E host \in Hosts, reachable \in BOOLEAN :
        \E r \in {connect(set_host(host), reachable)} :
            /\ conn' = IF r.exc = NoExc THEN r.conn ELSE conn
            /\ fcall' = [op |-> "__init__", host |-> host, exc |-> r.exc]
            /\ UNCHANGED files

PutCall ==
    /\ conn # PyNone
    /\ \E c \in Contents, p \in Paths, n \in Filenames, transfer_ok \in BOOLEAN :
        \E r \in {put(conn, files, c, p, n, transfer_ok)} :
            /\ conn' = r.conn
            /\ files' = r.stored.files
            /\ fcall' = [op |-> "put", content |-> c, path |-> p, name |-> n,
                         exc |-> r.stored.exc, was_open |-> conn.open]

\* no FTP object yet; no builder call, no extractor call
FTPInit ==
    /\ conn = PyNone
    /\ files = {}
    /\ fcall = PyNone
    /\ sidecar = PyNone
    /\ lastGood = PyNone
    /\ bcall = [op |-> "__init__"]
    /\ equery = PyNone
    /\ eresult = PyNone

FTPNext ==
    \/ FTPConstruct /\ UNCHANGED <<bvars, evars>>
    \/ PutCall /\ UNCHANGED <<bvars, evars>>

SpecFTP == FTPInit /\ [][FTPNext]_vars

(***************************************************************************)
(* Properties of the builder                                               *)
(***************************************************************************)
Built == bcall.op = "build"
BuiltOk == Built /\ bcall.exc = NoExc
KeysAllowed(d) == \A i \in 1..Len(d.items) : d.items[i][1] \in {"Dynamic", "Technical"}
WellShaped(d) ==
    \A i \in 1..Len(d.items) :
        /\ d.items[i][2].t = "dict"
        /\ \A k \in 1..Len(d.items[i][2].items) : d.items[i][2].items[k][2].t = "str"
MhsUri == <<"https://zeticon.mediahaven.com/metadata/", "19.4", "/mhs/">>
MhUri == <<"https://zeticon.mediahaven.com/metadata/", "19.4", "/mh/">>
\* the children of element e whose tag has the local name n
Named(e, n) == {j \in 1..Len(e.children) : e.children[j].tag.local = n}

\* C1: a build with a top-level key outside {Dynamic, Technical}, wherever the
\* key sits, raises the assertion error naming a key of the mapping that is
\* not allowed, before any tree node is created, and the builder holds the
\* document it held before the call.
C1_UnknownKeyRejected ==
    (Built /\ ~KeysAllowed(bcall.arg)) =>
        /\ bcall.exc.exc = "AssertionError"
        /\ HasKey(bcall.arg, bcall.exc.arg)
        /\ bcall.exc.arg \notin {"Dynamic", "Technical"}
        /\ bcall.root = PyNone
        /\ sidecar = bcall.before

\* a build rejected for an unknown key that comes after an allowed key, on a
\* builder that holds a tree
C1_Witness ==
    /\ Built
    /\ Len(bcall.arg.items) = 3
    /\ bcall.arg.items[3][1] = "Descriptive"
    /\ bcall.exc # NoExc
    /\ bcall.before # PyNone

\* C2: after a build that returned, each category of the mapping has one
\* element, in the mhs namespace, under the root; each field of the category
\* has one element under it, with the field's value as text, in the mh
\* namespace under Technical and in no namespace under Dynamic; there are no
\* other category or field elements.
C2_FieldsPlaced ==
    BuiltOk =>
        /\ Len(sidecar.root.children) = Len(bcall.arg.items)
        /\ \A i \in 1..Len(bcall.arg.items) :
            LET top == bcall.arg.items[i][1]
                fields == bcall.arg.items[i][2].items
                cats == Named(sidecar.root, top)
            IN  /\ Cardinality(cats) = 1
                /\ \A c \in cats :
                    LET node == sidecar.root.children[c]
                    IN  /\ node.tag.ns = MhsUri
                        /\ Len(node.children) = Len(fields)
                        /\ \A k \in 1..Len(fields) :
                            /\ Cardinality(Named(node, fields[k][1])) = 1
                            /\ \A f \in Named(node, fields[k][1]) :
                                /\ node.children[f].text = fields[k][2]
                                /\ node.children[f].children = <<>>
                                /\ node.children[f].tag.ns =
                                       IF top = "Technical" THEN MhUri
                                       ELSE IF top = "Dynamic" THEN <<>>
                                       ELSE node.children[f].tag.ns

\* a build that returned for a mapping with two fields in each category
C2_Witness ==
    /\ BuiltOk
    /\ Len(bcall.arg.items) = 2
    /\ \A i \in 1..2 : Len(bcall.arg.items[i][2].items) = 2

C4_HeldIsLatestBuild ==
    sidecar = IF lastGood = PyNone THEN PyNone ELSE build(PyNone, lastGood).sidecar

\* a build that returned on a builder that held a tree with more categories
C4_Witness ==
    /\ BuiltOk
    /\ bcall.before # PyNone
    /\ Len(bcall.before.root.children) > Len(sidecar.root.children)

\* C5: after a build that returned, the category elements are in the order of
\* the mapping's keys and the field elements of each category in the order
\* of the category's fields.
C5_OrderKept ==
    BuiltOk =>
        /\ Len(sidecar.root.children) = Len(bcall.arg.items)
        /\ \A i \in 1..Len(bcall.arg.items) :
            LET node == sidecar.root.children[i]
                fields == bcall.arg.items[i][2].items
            IN  /\ node.tag.local = bcall.arg.items[i][1]
                /\ Len(node.children) = Len(fields)
                /\ \A k \in 1..Len(fields) : node.children[k].tag.local = fields[k][1]

\* a build of Technical before Dynamic, each with title before md5
C5_Witness ==
    /\ BuiltOk
    /\ Len(bcall.arg.items) = 2
    /\ bcall.arg.items[1][1] = "Technical"
    /\ \A i \in 1..2 :
        /\ Len(bcall.arg.items[i][2].items) = 2
        /\ bcall.arg.items[i][2].items[1][1] = "title"

\* the first malformed category of a mapping: its value is no mapping, or a
\* field of it has a value that is no string
Malformed(v) ==
    \/ v.t # "dict"
    \/ \E k \in 1..Len(v.items) : v.items[k][2].t # "str"
FirstMalformed(d) ==
    CHOOSE i \in 1..Len(d.items) :
        /\ Malformed(d.items[i][2])
        /\ \A j \in 1..(i - 1) : ~Malformed(d.items[j][2])

\* C6: a build of a mapping with allowed keys and a malformed shape (a
\* category that is no mapping, a field value that is no string, null
\* included) raises before any element is appended for that category, and the
\* builder holds the document it held before the call.
C6_MalformedRejected ==
    (Built /\ KeysAllowed(bcall.arg) /\ ~WellShaped(bcall.arg)) =>
        /\ bcall.exc # NoExc
        /\ Named(bcall.root, bcall.arg.items[FirstMalformed(bcall.arg)][1]) = {}
        /\ sidecar = bcall.before

\* C7: while no build has returned on the instance, to_bytes and to_string
\* raise and give no output.
C7_NoOutputBeforeBuild ==
    (bcall.op \in {"to_bytes", "to_string"} /\ lastGood = PyNone) =>
        /\ bcall.exc # NoExc
        /\ bcall.exc.exc = "TypeError"
        /\ bcall.out = PyNone

\* to_string right after a build that raised, on an instance without a tree
C7_Witness ==
    /\ bcall.op = "to_string"
    /\ bcall.after = "build"
    /\ lastGood = PyNone
    /\ bcall.exc # NoExc

(***************************************************************************)
(* Properties of the extractor                                             *)
(***************************************************************************)
Answered == eresult # PyNone
\* event['Records'][0]['s3']['object']['metadata'] of an event that has it
ObjectMetadataOf(event) ==
    Lookup(Lookup(Lookup(Lookup(event, "Records").items[1], "s3"), "object"), "metadata")
\* the value under the first key present, in the order x-md5sum-meta, md5sum,
\* x-amz-meta-md5sum; the empty string when none is
FirstByPriority(m) ==
    IF HasKey(m, "x-md5sum-meta") THEN Lookup(m, "x-md5sum-meta")
    ELSE IF HasKey(m, "md5sum") THEN Lookup(m, "md5sum")
    ELSE IF HasKey(m, "x-amz-meta-md5sum") THEN Lookup(m, "x-amz-meta-md5sum")
    ELSE [t |-> "str", s |-> ""]

\* C8: try_to_find_md5, and get_from_event with the name md5 on an event that
\* has object metadata, return the value under the first key the record has
\* in the order x-md5sum-meta, md5sum, x-amz-meta-md5sum, whatever other keys
\* it has, and the empty string when it has none of the three.
C8_Md5ByPriority ==
    /\ (Answered /\ equery.fn = "try_to_find_md5") =>
            /\ eresult.exc = NoExc
            /\ eresult.val = FirstByPriority(equery.object_metadata)
    /\ (Answered /\ equery.fn = "get_from_event" /\ equery.name = <<"m", "d", "5">>
            /\ equery.event \in GoodEvents) =>
            /\ eresult.exc = NoExc
            /\ eresult.val = FirstByPriority(ObjectMetadataOf(equery.event))

\* a record that has x-amz-meta-md5sum before md5sum and no x-md5sum-meta
C8_Witness ==
    /\ Answered
    /\ equery.fn = "try_to_find_md5"
    /\ Len(equery.object_metadata.items) >= 2
    /\ equery.object_metadata.items[1][1] = "x-amz-meta-md5sum"
    /\ HasKey(equery.object_metadata, "md5sum")
    /\ ~HasKey(equery.object_metadata, "x-md5sum-meta")
    /\ eresult.val = [t |-> "str", s |-> "7ef01fd710fec9a175d28c4a31dc49a2"]

SameIgnoringCase(a, b) ==
    /\ Len(a) = Len(b)
    /\ \A i \in 1..Len(a) :
        \/ a[i] = b[i]
        \/ \E j \in 1..Len(UPPERCASE) : {a[i], b[i]} = {UPPERCASE[j], LOWERCASE[j]}
RecognizedNames == {<<"b", "u", "c", "k", "e", "t">>, <<"o", "b", "j", "e", "c", "t", "_", "k", "e", "y">>, <<"h", "o", "s", "t">>, <<"t", "e", "n", "a", "n", "t">>, <<"m", "d", "5">>}
Recognized(name) == \E k \in RecognizedNames : SameIgnoringCase(name, k)

\* C9: get_from_event returns a string when the name is, case ignored, one
\* of bucket, object_key, host, tenant, md5 (and the event has the shape of a
\* notification); for every other name it raises the assertion error, on
\* malformed events too.
C9_NamesRecognized ==
    (Answered /\ equery.fn = "get_from_event") =>
        IF Recognized(equery.name)
        THEN equery.event \in GoodEvents =>
                /\ eresult.exc = NoExc
                /\ eresult.val.t = "str"
        ELSE eresult.exc # NoExc /\ eresult.exc.exc = "AssertionError"

\* the unknown name "key" asked of a malformed event
C9_Witness ==
    /\ Answered
    /\ equery.fn = "get_from_event"
    /\ equery.name = <<"k", "e", "y">>
    /\ equery.event \in MalformedEvents
    /\ eresult.exc # NoExc
    /\ eresult.exc.exc = "AssertionError"

(***************************************************************************)
(* Properties of the transfer                                              *)
(***************************************************************************)
\* C10: when a put has ended, the session is closed, whether the store
\* succeeded, the change of directory failed or the store failed.
C10_SessionClosedAfterPut ==
    (fcall # PyNone /\ fcall.op = "put") => (conn # PyNone /\ ~conn.open)

\* a put on an open session whose store failed
C10_Witness ==
    /\ fcall # PyNone
    /\ fcall.op = "put"
    /\ fcall.was_open
    /\ fcall.exc # NoExc
    /\ fcall.exc.exc = "error_temp"

====
